---- MODULE Spec2Model ----
(***************************************************************************)
(* Model of rustdoc-static (src/src/lib.rs): the renderer that turns a     *)
(* JSON-API document (one primary resource and a list of included          *)
(* resources) into a tree of HTML files under <root>/doc2.                 *)
(*                                                                         *)
(* Strings of the program (resource ids, file names, links) are sequences  *)
(* of one-character strings, so that split("::"), rsplit("::"), format!    *)
(* and join("/") are computed and not assumed.  A PathBuf is the sequence  *)
(* of its components, which is how PathBuf equality, parent(), file_name() *)
(* and pop() see it.                                                       *)
(***************************************************************************)
EXTENDS Integers, Sequences, FiniteSets, TLC

VARIABLES
    document,   \* the JsonApiDocument handed to render_docs
    pc,         \* position of render_docs / write_doc
    cur,        \* index of the resource being written: 0 primary, i included[i]
    path,       \* write_doc's `path`, relative to doc_root
    dirs,       \* directories that exist below doc_root (doc_root itself is <<>>)
    files,      \* files below doc_root: path -> content
    context,    \* the Value built by generate_context for the current resource
    written,    \* log: indices whose file received its rendered template
    status,     \* "running", "ok" (Ok(())), "err" (Err(io::Error)), "panic"
    cause,      \* what ended a failed run
    resA,       \* path/link check: the referencing resource
    resB,       \* path/link check: the related resource
    pathA,      \* path_for_resource(resA): {} when it panics
    pathB,      \* path_for_resource(resB): {} when it panics
    link,       \* the link generate_context computes from resA to resB
    ppc         \* position of the path/link check

vars == <<document, pc, cur, path, dirs, files, context, written, status, cause,
          resA, resB, pathA, pathB, link, ppc>>

runVars == <<document, pc, cur, path, dirs, files, context, written, status, cause>>
pureVars == <<resA, resB, pathA, pathB, link, ppc>>

-----------------------------------------------------------------------------
(* Bounds of the model. *)

\* most "::"-separated segments of an identifier in the path/link check
MaxSegs == 4
\* most resources in document.included
MaxIncluded == 2
\* most target ids in the "items" relationship
MaxTargets == 2

-----------------------------------------------------------------------------
(* Strings. *)

Sep == <<":", ":">>
DotHtml == <<".", "h", "t", "m", "l">>
IndexHtml == <<"i", "n", "d", "e", "x">> \o DotHtml
StructTag == <<"s", "t", "r", "u", "c", "t">>
ParentDir == <<".", ".">>

\* An Option is a set: {} is None and {x} is Some(x).  The result of a call that
\* can panic is a set too: {} when it panics, {x} when it returns x.
Some(x) == {x}
Unwrap(o) == CHOOSE x \in o : TRUE

\* names an identifier segment can be (Rust identifiers)
Names == {<<"a">>, <<"a", "b">>}

\* The content of a file: nothing yet, what an earlier run left, what a write_all
\* that failed part-way left, or the bytes write_all was given.
Empty == [state |-> "empty", bytes |-> {}]
Old == [state |-> "old", bytes |-> {}]
Partial == [state |-> "partial", bytes |-> {}]
Full(bytes) == [state |-> "full", bytes |-> {bytes}]

RECURSIVE Join(_, _)
\* [T]::join(sep): the segments with sep between them
Join(segs, sep) ==
    IF segs = <<>> THEN <<>>
    ELSE IF Len(segs) = 1 THEN segs[1]
    ELSE segs[1] \o sep \o Join(Tail(segs), sep)

RECURSIVE SplitAcc(_, _, _, _)
SplitAcc(rest, sep, curSeg, acc) ==
    IF rest = <<>> THEN Append(acc, curSeg)
    ELSE IF Len(rest) >= Len(sep) /\ SubSeq(rest, 1, Len(sep)) = sep
         THEN SplitAcc(SubSeq(rest, Len(sep) + 1, Len(rest)), sep, <<>>, Append(acc, curSeg))
         ELSE SplitAcc(Tail(rest), sep, Append(curSeg, Head(rest)), acc)

\* str::split(sep): leftmost non-overlapping matches; "" splits to [""]
Split(s, sep) == SplitAcc(s, sep, <<>>, <<>>)

Max(S) == CHOOSE x \in S : \A y \in S : y <= x

\* str::rsplit(sep).next(): what follows the rightmost match of sep, or all of s
RSplitFirst(s, sep) ==
    LET hits == {i \in 1..(Len(s) - Len(sep) + 1) : SubSeq(s, i, i + Len(sep) - 1) = sep}
    IN  IF hits = {} THEN s
        ELSE SubSeq(s, Max(hits) + Len(sep), Len(s))

-----------------------------------------------------------------------------
(* std::path, on component sequences. *)

\* PathBuf::push of a relative segment: an empty segment adds no component
Push(p, seg) == IF seg = <<>> THEN p ELSE Append(p, seg)

RECURSIVE PathFromIter(_)
\* PathBuf: FromIterator, pushing every segment in turn
PathFromIter(segs) ==
    IF segs = <<>> THEN <<>>
    ELSE Push(PathFromIter(SubSeq(segs, 1, Len(segs) - 1)), segs[Len(segs)])

\* Path::parent(): None when the path has no component
Parent(p) == IF p = <<>> THEN {} ELSE Some(SubSeq(p, 1, Len(p) - 1))

\* Path::file_name(): None when the path has no component
FileName(p) == IF p = <<>> THEN {} ELSE Some(p[Len(p)])

\* PathBuf::pop()
Pop(p) == IF p = <<>> THEN p ELSE SubSeq(p, 1, Len(p) - 1)

RECURSIVE DiffLoop(_, _, _)
\* the loop of pathdiff::diff_paths over the components of two relative paths
DiffLoop(a, b, comps) ==
    IF a = <<>> /\ b = <<>> THEN Some(comps)
    ELSE IF b = <<>> THEN Some(comps \o a)
    ELSE IF a = <<>> THEN DiffLoop(a, Tail(b), Append(comps, ParentDir))
    ELSE IF comps = <<>> /\ Head(a) = Head(b) THEN DiffLoop(Tail(a), Tail(b), comps)
    ELSE IF Head(b) = <<".">> THEN DiffLoop(Tail(a), Tail(b), Append(comps, Head(a)))
    ELSE IF Head(b) = ParentDir THEN {}
    ELSE Some(comps \o [i \in 1..Len(b) |-> ParentDir] \o a)

\* pathdiff::diff_paths(path, base)
diff_paths(p, base) == DiffLoop(p, base, <<>>)

-----------------------------------------------------------------------------
(* The pure helpers of lib.rs. *)

\* mutant of ItemFileName: the file name leaves the item name out
ItemFileNameNoName(ty, item_name) == ty \o DotHtml

\* format!("{}.{}.html", ty, item_name)
ItemFileName(ty, item_name) == ty \o <<".">> \o item_name \o DotHtml

\* mutant of path_for_resource: the item's own segment is not popped
path_for_resource_nopop(resource) ==
    LET p == PathFromIter(Split(resource.id, Sep))
    IN  IF resource.type = "module" \/ resource.type = "crate"
        THEN Some(Push(p, IndexHtml))
        ELSE IF resource.type # "struct" THEN {}
        ELSE IF FileName(p) = {} THEN {}
        ELSE Some(Push(p, StructTag \o <<".">> \o Unwrap(FileName(p)) \o DotHtml))

\* path_for_resource: the doc file of a resource, relative to the doc root;
\* panics on a type that is neither module, crate nor struct
path_for_resource(resource) ==
    LET p == PathFromIter(Split(resource.id, Sep))
    IN  IF resource.type = "module" \/ resource.type = "crate"
        THEN Some(Push(p, IndexHtml))
        ELSE IF resource.type # "struct" THEN {}
        ELSE IF FileName(p) = {} THEN {}
        ELSE Some(Push(Pop(p), ItemFileName(StructTag, Unwrap(FileName(p)))))

\* mutant of link_base: the link is taken from the page, not from its folder
link_base_page(parent_path) == Some(parent_path)

\* the folder the link is taken from: parent_path.parent()
link_base(parent_path) == Parent(parent_path)

\* the `link` block of generate_context: the child's path seen from the parent's folder
link_to(resource, related_resource) ==
    LET parent_path == path_for_resource(resource)
        child_path == path_for_resource(related_resource)
    IN  IF parent_path = {} \/ child_path = {} THEN {}
        ELSE IF link_base(Unwrap(parent_path)) = {} THEN {}
        ELSE LET relative_path ==
                     diff_paths(Unwrap(child_path), Unwrap(link_base(Unwrap(parent_path))))
             IN  IF relative_path = {} THEN {}
                 ELSE Some(Join(Unwrap(relative_path), <<"/">>))

-----------------------------------------------------------------------------
(* Path and link check: path_for_resource and the link computation applied to  *)
(* every pair of resources whose ids are "::"-joined names.                    *)

Kinds == {"crate", "module", "struct", "enum"}
SupportedKinds == {"crate", "module", "struct"}

RECURSIVE SegSeqs(_)
\* the sequences of 1..n names
SegSeqs(n) ==
    IF n = 0 THEN {}
    ELSE LET shorter == SegSeqs(n - 1)
         IN  {<<x>> : x \in Names} \cup shorter
             \cup {Append(s, x) : s \in {t \in shorter : Len(t) = n - 1}, x \in Names}

\* the segment sequences of the ids checked
PureSegs == SegSeqs(MaxSegs)

PureIds == {Join(segs, Sep) : segs \in PureSegs}

PureResources ==
    {[type |-> k, id |-> i, docs |-> {}, relationships |-> {}] :
        k \in Kinds, i \in PureIds}

RunIdle ==
    /\ document = {} /\ pc = "idle" /\ cur = 0 /\ path = {}
    /\ dirs = {} /\ files = <<>> /\ context = {} /\ written = <<>>
    /\ status = "idle" /\ cause = "none"

PathInit ==
    /\ RunIdle
    /\ resA \in PureResources
    /\ resB \in PureResources
    /\ pathA = {} /\ pathB = {} /\ link = {}
    /\ ppc = "start"

\* both paths derived
DerivePaths ==
    /\ ppc = "start"
    /\ pathA' = path_for_resource(resA)
    /\ pathB' = path_for_resource(resB)
    /\ ppc' = "paths"
    /\ UNCHANGED <<resA, resB, link>>
    /\ UNCHANGED runVars

\* the link from resA's page to resB's page
ComputeLink ==
    /\ ppc = "paths"
    /\ link' = link_to(resA, resB)
    /\ ppc' = "linked"
    /\ UNCHANGED <<resA, resB, pathA, pathB>>
    /\ UNCHANGED runVars

PathNext == DerivePaths \/ ComputeLink

PathSpec == PathInit /\ [][PathNext]_vars

-----------------------------------------------------------------------------
(* The document. *)

\* the "docs" attribute: absent, or a markdown string
TextDocs == <<"h", "i">>

CrateRes == [type |-> "crate", id |-> <<"a">>, docs |-> Some(TextDocs), relationships |-> {}]
ModuleRes ==
    [type |-> "module", id |-> Join(<<<<"a">>, <<"b">>>>, Sep), docs |-> Some(TextDocs),
     relationships |-> {}]
StructRes ==
    [type |-> "struct", id |-> Join(<<<<"a">>, <<"b">>, <<"S">>>>, Sep), docs |-> Some(<<>>),
     relationships |-> {}]
EnumRes ==
    [type |-> "enum", id |-> Join(<<<<"a">>, <<"E">>>>, Sep), docs |-> {},
     relationships |-> {}]

Pool == {ModuleRes, StructRes, EnumRes}
TargetIds == {r.id : r \in Pool}

RECURSIVE SeqsUpTo(_, _)
\* the sequences over S of length at most n
SeqsUpTo(S, n) ==
    IF n = 0 THEN {<<>>}
    ELSE LET shorter == SeqsUpTo(S, n - 1)
         IN  shorter \cup {Append(q, x) : q \in {t \in shorter : Len(t) = n - 1}, x \in S}

Distinct(q) == \A i, j \in 1..Len(q) : i # j => q[i].id # q[j].id

\* document.included when present: resources with unique ids
IncludedSeqs == {q \in SeqsUpTo(Pool, MaxIncluded) : Distinct(q)}

\* IdentifierData of one relationship
Multiple(ids) == [kind |-> "Multiple", ids |-> ids]
Single == [kind |-> "Single", ids |-> <<>>]

ItemsData == {Single} \cup {Multiple(ids) : ids \in SeqsUpTo(TargetIds, MaxTargets)}
FieldsData == {Multiple(<<>>), Multiple(<<StructRes.id>>)}

\* Some(relationships): a map from relationship name to its data
RelMaps ==
    {<<>>}
    \cup {("items" :> d) : d \in ItemsData}
    \cup {("items" :> d) @@ ("fields" :> f) : d \in ItemsData, f \in FieldsData}

\* resource.relationships
RelChoices == {{}} \cup {Some(m) : m \in RelMaps}

WithRels(r, rels) == [r EXCEPT !.relationships = rels]

\* the resource at index `owner` (0 the primary) carries the relationships
MakeDoc(inc, owner, rels) ==
    [data |-> Some(IF owner = 0 THEN WithRels(CrateRes, rels) ELSE CrateRes),
     included |->
        Some([i \in 1..Len(inc) |-> IF i = owner THEN WithRels(inc[i], rels) ELSE inc[i]])]

\* documents: data a single resource (or not), included present (or not)
Documents ==
    {MakeDoc(io[1], io[2], rels) :
        io \in {x \in IncludedSeqs \X (0..MaxIncluded) : x[2] <= Len(x[1])},
        rels \in RelChoices}
    \cup {[data |-> Some(WithRels(CrateRes, rels)), included |-> {}] : rels \in RelChoices}
    \cup {[data |-> {}, included |-> Some(<<>>)]}

\* the resources render_docs writes, in order: the primary one, then the included ones
ResourceCount(doc) == IF doc.included = {} THEN 0 ELSE Len(Unwrap(doc.included))
\* mutant of ResourceAt: document.included is walked from its end
ResourceAtReversed(doc, i) ==
    IF i = 0 THEN Unwrap(doc.data)
    ELSE Unwrap(doc.included)[Len(Unwrap(doc.included)) + 1 - i]

ResourceAt(doc, i) == IF i = 0 THEN Unwrap(doc.data) ELSE Unwrap(doc.included)[i]

-----------------------------------------------------------------------------
(* generate_context and what it calls. *)

\* pulldown_cmark: html::push_html(Parser::new(docs)) of a plain paragraph
PushHtml(docs) ==
    IF docs = <<>> THEN <<>>
    ELSE <<"<", "p", ">">> \o docs \o <<"<", "/", "p", ">">>

\* docs_for_resource: the rendered docs, None when absent or rendered empty
docs_for_resource(resource) ==
    IF resource.docs = {} THEN {}
    ELSE IF PushHtml(Unwrap(resource.docs)) # <<>> THEN Some(PushHtml(Unwrap(resource.docs)))
    ELSE {}

\* resource_by_id: the first included resource with this id
resource_by_id(doc, id) ==
    IF doc.included = {} THEN {}
    ELSE LET included == Unwrap(doc.included)
             hits == {i \in 1..Len(included) : included[i].id = id}
         IN  IF hits = {} THEN {}
             ELSE Some(included[CHOOSE i \in hits : \A j \in hits : i <= j])

\* the summary the flat_map closure builds for a related resource; panics with the link
summary_of(resource, related_resource) ==
    IF link_to(resource, related_resource) = {} THEN {}
    ELSE Some([name |-> RSplitFirst(related_resource.id, Sep),
               link |-> Unwrap(link_to(resource, related_resource)),
               docs |-> docs_for_resource(related_resource)])

\* mutant of flat_map_item: a target that is not included panics (an unwrap)
flat_map_item_strict(doc, resource, id) ==
    IF resource_by_id(doc, id) = {} THEN {}
    ELSE IF summary_of(resource, Unwrap(resource_by_id(doc, id))) = {} THEN {}
    ELSE Some(<<Unwrap(summary_of(resource, Unwrap(resource_by_id(doc, id))))>>)

\* the flat_map closure: the summaries (none or one) a target id contributes
flat_map_item(doc, resource, id) ==
    IF resource_by_id(doc, id) = {} THEN Some(<<>>)
    ELSE IF summary_of(resource, Unwrap(resource_by_id(doc, id))) = {} THEN {}
    ELSE Some(<<Unwrap(summary_of(resource, Unwrap(resource_by_id(doc, id))))>>)

RECURSIVE json_resources(_, _, _)
\* resources.iter().flat_map(..).collect()
json_resources(doc, resource, ids) ==
    IF ids = <<>> THEN Some(<<>>)
    ELSE LET first == flat_map_item(doc, resource, Head(ids))
             rest == json_resources(doc, resource, Tail(ids))
         IN  IF first = {} \/ rest = {} THEN {}
             ELSE Some(Unwrap(first) \o Unwrap(rest))

\* mutant of section_keys: a relationship without targets gets no key
section_keys_nonempty(rels) == {key \in DOMAIN rels : rels[key].ids # <<>>}

\* the keys `sections` gets: every relationship of the resource
section_keys(rels) == DOMAIN rels

\* what makes generate_context panic, "none" when it returns
context_panic(doc, resource) ==
    IF resource.relationships = {} THEN "none"
    ELSE LET rels == Unwrap(resource.relationships)
         IN  IF \E key \in DOMAIN rels : rels[key].kind # "Multiple" THEN "not_multiple"
             ELSE IF \E key \in DOMAIN rels : json_resources(doc, resource, rels[key].ids) = {}
             THEN "unimplemented"
             ELSE "none"

\* mutant of sections_of: the summaries come out in reverse
sections_of_reversed(doc, resource) ==
    LET rels == Unwrap(resource.relationships)
        list(key) == Unwrap(json_resources(doc, resource, rels[key].ids))
    IN  [key \in section_keys(rels) |->
            [k \in 1..Len(list(key)) |-> list(key)[Len(list(key)) + 1 - k]]]

\* the `sections` object: one list per relationship
sections_of(doc, resource) ==
    LET rels == Unwrap(resource.relationships)
    IN  [key \in section_keys(rels) |-> Unwrap(json_resources(doc, resource, rels[key].ids))]

\* mutant of base_context: the name is the last segment of the id
base_context_short(resource) ==
    [type |-> resource.type, name |-> RSplitFirst(resource.id, Sep)]

\* the "type" and "name" members of the context
base_context(resource) == [type |-> resource.type, name |-> resource.id]

\* generate_context: the handlebars context of a resource
generate_context(doc, resource) ==
    LET withDocs ==
            IF docs_for_resource(resource) # {}
            THEN base_context(resource) @@ [docs |-> Unwrap(docs_for_resource(resource))]
            ELSE base_context(resource)
    IN  IF context_panic(doc, resource) # "none" THEN {}
        ELSE IF resource.relationships = {} THEN Some(withDocs)
        ELSE Some(withDocs @@ [sections |-> sections_of(doc, resource)])

\* handlebars.render("item", &context)
Render(ctx) == [template |-> "item", context |-> ctx]

-----------------------------------------------------------------------------
(* The file system below doc_root. *)

\* fs::create_dir_all(p): p and every ancestor of it
create_dir_all(ds, p) == ds \cup {SubSeq(p, 1, k) : k \in 0..Len(p)}

\* mutant of CreateFile: an existing file is opened without being truncated
CreateFileKeep(fs, p) ==
    [q \in DOMAIN fs \cup {p} |-> IF q \in DOMAIN fs THEN fs[q] ELSE Empty]

\* File::create(p): a new empty file, an existing one truncated
CreateFile(fs, p) == [q \in DOMAIN fs \cup {p} |-> IF q = p THEN Empty ELSE fs[q]]

\* file.write_all(bytes) on the file just created
WriteAll(fs, p, bytes) == [fs EXCEPT ![p] = Full(bytes)]

\* a tree left by an earlier run: a page for every resource that has a path
OldPaths == {Unwrap(path_for_resource(r)) : r \in {CrateRes, ModuleRes, StructRes}}
OldFiles == [q \in OldPaths |-> Old]
OldDirs == UNION {create_dir_all({}, Unwrap(Parent(q))) : q \in OldPaths}

-----------------------------------------------------------------------------
(* render_docs and write_doc. *)

PureIdle ==
    /\ resA = {} /\ resB = {} /\ pathA = {} /\ pathB = {}
    /\ link = {} /\ ppc = "idle"

Init ==
    /\ document \in Documents
    /\ pc = "start"
    /\ cur = 0
    /\ path = {}
    /\ \/ dirs = {} /\ files = <<>>
       \/ dirs = OldDirs /\ files = OldFiles
    /\ context = {}
    /\ written = <<>>
    /\ status = "running"
    /\ cause = "none"
    /\ PureIdle

\* mutant of Abort: the failure is swallowed and the loop goes on
AbortSwallowed(st, c) ==
    /\ status' = "running"
    /\ cause' = c
    /\ pc' = "loop"
    /\ UNCHANGED <<document, cur, written>>

\* `?` on an Err, or a panic: the run ends where it is
Abort(st, c) ==
    /\ status' = st
    /\ cause' = c
    /\ UNCHANGED <<document, pc, cur, written>>

\* render_docs up to the first write_doc: the template, doc_root, the primary resource
Start ==
    /\ pc = "start" /\ status = "running"
    /\ \/ Abort("panic", "template") /\ UNCHANGED <<path, dirs, files, context>>
       \/ Abort("err", "create_dir") /\ UNCHANGED <<path, dirs, files, context>>
       \/ /\ document.data = {}
          /\ dirs' = create_dir_all(dirs, <<>>)
          /\ Abort("panic", "primary_shape") /\ UNCHANGED <<path, files, context>>
       \/ /\ document.data # {}
          /\ dirs' = create_dir_all(dirs, <<>>)
          /\ pc' = "write_doc"
          /\ UNCHANGED <<document, cur, path, files, context, written, status, cause>>
    /\ UNCHANGED pureVars

\* write_doc: the path of the resource and its parent directories
PathStep ==
    /\ pc = "write_doc" /\ status = "running"
    /\ LET p == path_for_resource(ResourceAt(document, cur))
       IN  \/ /\ p = {}
              /\ Abort("panic", "unimplemented") /\ UNCHANGED <<path, dirs, files, context>>
           \/ /\ p # {}
              /\ path' = p
              /\ \/ Abort("err", "create_dir") /\ UNCHANGED <<dirs, files, context>>
                 \/ /\ dirs' = create_dir_all(dirs, Unwrap(Parent(Unwrap(p))))
                    /\ pc' = "create_file"
                    /\ UNCHANGED <<document, cur, files, context, written, status, cause>>
    /\ UNCHANGED pureVars

\* write_doc: File::create
CreateStep ==
    /\ pc = "create_file" /\ status = "running"
    /\ \/ Abort("err", "create_file") /\ UNCHANGED <<path, dirs, files, context>>
       \/ /\ files' = CreateFile(files, Unwrap(path))
          /\ pc' = "generate_context"
          /\ UNCHANGED <<document, cur, path, dirs, context, written, status, cause>>
    /\ UNCHANGED pureVars

\* write_doc: generate_context
ContextStep ==
    /\ pc = "generate_context" /\ status = "running"
    /\ LET ctx == generate_context(document, ResourceAt(document, cur))
       IN  \/ /\ ctx = {}
              /\ Abort("panic", context_panic(document, ResourceAt(document, cur)))
              /\ UNCHANGED <<path, dirs, files, context>>
           \/ /\ ctx # {}
              /\ context' = ctx
              /\ pc' = "render"
              /\ UNCHANGED <<document, cur, path, dirs, files, written, status, cause>>
    /\ UNCHANGED pureVars

\* write_doc: handlebars.render(..).unwrap()
RenderStep ==
    /\ pc = "render" /\ status = "running"
    /\ \/ Abort("panic", "render") /\ UNCHANGED <<path, dirs, files, context>>
       \/ /\ pc' = "write_all"
          /\ UNCHANGED <<document, cur, path, dirs, files, context, written, status, cause>>
    /\ UNCHANGED pureVars

\* write_doc: file.write_all(..).unwrap()
WriteStep ==
    /\ pc = "write_all" /\ status = "running"
    /\ \/ /\ Abort("panic", "write")
          /\ files' \in {files, [files EXCEPT ![Unwrap(path)] = Partial]}
          /\ UNCHANGED <<path, dirs, context>>
       \/ /\ files' = WriteAll(files, Unwrap(path), Render(Unwrap(context)))
          /\ written' = Append(written, ResourceAt(document, cur).id)
          /\ pc' = "loop"
          /\ UNCHANGED <<document, cur, path, dirs, context, status, cause>>
    /\ UNCHANGED pureVars

\* render_docs: the for loop over document.included, and Ok(())
LoopStep ==
    /\ pc = "loop" /\ status = "running"
    /\ \/ /\ document.included = {}
          /\ Abort("panic", "no_included") /\ UNCHANGED <<path, dirs, files, context>>
       \/ /\ document.included # {}
          /\ cur < ResourceCount(document)
          /\ cur' = cur + 1
          /\ pc' = "write_doc"
          /\ UNCHANGED <<document, path, dirs, files, context, written, status, cause>>
       \/ /\ document.included # {}
          /\ cur = ResourceCount(document)
          /\ status' = "ok"
          /\ pc' = "done"
          /\ UNCHANGED <<document, cur, path, dirs, files, context, written, cause>>
    /\ UNCHANGED pureVars

Next ==
    \/ Start \/ PathStep \/ CreateStep \/ ContextStep
    \/ RenderStep \/ WriteStep \/ LoopStep

Spec == Init /\ [][Next]_vars

-----------------------------------------------------------------------------
(* Vocabulary of the properties. *)

\* the run has built the context of the resource at `cur`
ContextBuilt == pc \in {"render", "write_all", "loop"}

CurrentResource == ResourceAt(document, cur)

\* the ids render_docs is to write, in order
ExpectedOrder ==
    IF document.data = {} THEN <<>>
    ELSE <<Unwrap(document.data).id>>
         \o [i \in 1..ResourceCount(document) |-> Unwrap(document.included)[i].id]

IncludedIds ==
    IF document.included = {} THEN {}
    ELSE {Unwrap(document.included)[i].id : i \in 1..ResourceCount(document)}

\* the included resource an id names (ids are unique)
IncludedWithId(id) ==
    CHOOSE r \in {Unwrap(document.included)[i] : i \in 1..ResourceCount(document)} : r.id = id

\* the last "::"-separated segment of an id
LastSegment(id) == Split(id, Sep)[Len(Split(id, Sep))]

RECURSIVE ResolveFrom(_, _)
ResolveFrom(dir, comps) ==
    IF comps = <<>> THEN dir
    ELSE IF Head(comps) = <<>> \/ Head(comps) = <<".">> THEN ResolveFrom(dir, Tail(comps))
    ELSE IF Head(comps) = ParentDir
         THEN ResolveFrom(IF dir = <<>> THEN dir ELSE SubSeq(dir, 1, Len(dir) - 1), Tail(comps))
    ELSE ResolveFrom(Append(dir, Head(comps)), Tail(comps))

\* where a browser lands when it follows the slash-separated link l from a page in dir
Resolve(dir, l) == ResolveFrom(dir, Split(l, <<"/">>))

\* the positions of a target list whose id is in document.included
ResolvedAt(ids) == {i \in 1..Len(ids) : ids[i] \in IncludedIds}

-----------------------------------------------------------------------------
(* Properties of a run (specification Spec). *)

\* C1: the primary resource is written first and the included resources after it in
\* the order of document.included: the files written so far are always the first
\* ones of that order.
C1_WrittenInOrder ==
    /\ Len(written) <= Len(ExpectedOrder)
    /\ \A k \in 1..Len(written) : written[k] = ExpectedOrder[k]

C1_Witness == status = "ok" /\ Len(written) = 3

\* C2: a relationship target that is not in document.included ends no run: the
\* context panics only on a relationship that is not a list or on a related resource
\* without a path, the list of a relationship holds one summary per target that is
\* included, and a run that returns Ok has written the file of every resource.
C2_DanglingTolerated ==
    /\ (pc = "generate_context" /\ status = "panic") =>
          LET rels == Unwrap(CurrentResource.relationships)
          IN  \E key \in DOMAIN rels :
                 \/ rels[key].kind # "Multiple"
                 \/ \E i \in ResolvedAt(rels[key].ids) :
                       IncludedWithId(rels[key].ids[i]).type \notin SupportedKinds
    /\ (ContextBuilt /\ CurrentResource.relationships # {}) =>
          LET rels == Unwrap(CurrentResource.relationships)
          IN  \A key \in DOMAIN rels :
                 Len(Unwrap(context).sections[key]) = Cardinality(ResolvedAt(rels[key].ids))
    /\ status = "ok" =>
          \A i \in 0..ResourceCount(document) :
             LET p == Unwrap(path_for_resource(ResourceAt(document, i)))
             IN  p \in DOMAIN files /\ files[p].state = "full"

C2_Witness ==
    /\ status = "ok"
    /\ Len(written) >= 2
    /\ \E i \in 0..ResourceCount(document) :
          /\ ResourceAt(document, i).relationships # {}
          /\ LET rels == Unwrap(ResourceAt(document, i).relationships)
             IN  \E key \in DOMAIN rels :
                    \E k \in 1..Len(rels[key].ids) : rels[key].ids[k] \notin IncludedIds

\* C3: a directory or file that cannot be created, a failed write, a rendering
\* failure or a type without a path ends the run at that resource with a failure:
\* the resources before it keep their rendered files, no file of a later resource
\* is touched, and the run does not return Ok.
C3_FatalAborts ==
    cause \in {"create_dir", "create_file", "write", "render", "unimplemented"} =>
        /\ status \in {"err", "panic"}
        /\ pc # "done"
        /\ Len(written) = cur
        /\ \A k \in 1..Len(written) :
              LET p == Unwrap(path_for_resource(ResourceAt(document, k - 1)))
              IN  p \in DOMAIN files /\ files[p].state = "full"
        /\ \A j \in (cur + 1)..ResourceCount(document) :
              LET p == path_for_resource(ResourceAt(document, j))
              IN  p # {} => (Unwrap(p) \notin DOMAIN files \/ files[Unwrap(p)] = Old)

C3_Witness ==
    /\ cause = "render" /\ status = "panic"
    /\ cur = 1
    /\ ResourceCount(document) = 2
    /\ path_for_resource(ResourceAt(document, 2)) # {}

\* C6 as claimed: the context holds the kind of the resource and, as its name, the
\* last "::"-separated segment of the id.
C6_NameIsLastSegment ==
    ContextBuilt =>
        /\ Unwrap(context).type = CurrentResource.type
        /\ Unwrap(context).name = LastSegment(CurrentResource.id)

\* C6 (amended): the context always holds the kind of the resource under "type" and
\* the whole id of the resource, every segment of it, under "name".
C6_NameIsWholeId ==
    ContextBuilt =>
        /\ {"type", "name"} \subseteq DOMAIN Unwrap(context)
        /\ Unwrap(context).type = CurrentResource.type
        /\ Unwrap(context).name = CurrentResource.id

C6_Witness ==
    /\ ContextBuilt
    /\ cur >= 1
    /\ Len(Split(CurrentResource.id, Sep)) >= 2
    /\ Unwrap(context).name # LastSegment(CurrentResource.id)

\* C8: the list of a relationship in `sections` is the targets that are in
\* document.included, in the order of the target list, one summary for each
\* occurrence: the k-th summary names the k-th included target, links to its page
\* and carries its docs.
C8_OrderKept ==
    (ContextBuilt /\ CurrentResource.relationships # {}) =>
        LET rels == Unwrap(CurrentResource.relationships)
            folder == Unwrap(Parent(Unwrap(path_for_resource(CurrentResource))))
        IN  \A key \in DOMAIN rels :
               LET ids == rels[key].ids
                   list == Unwrap(context).sections[key]
               IN  /\ Len(list) = Cardinality(ResolvedAt(ids))
                   /\ \A i \in ResolvedAt(ids) :
                         LET k == Cardinality({j \in ResolvedAt(ids) : j <= i})
                             target == IncludedWithId(ids[i])
                         IN  /\ list[k].name = LastSegment(ids[i])
                             /\ Resolve(folder, list[k].link)
                                   = Unwrap(path_for_resource(target))
                             /\ list[k].docs = docs_for_resource(target)

C8_Witness ==
    /\ ContextBuilt /\ CurrentResource.relationships # {}
    /\ "items" \in DOMAIN Unwrap(CurrentResource.relationships)
    /\ LET ids == Unwrap(CurrentResource.relationships)["items"].ids
       IN  /\ Len(ids) = 2 /\ ids[1] # ids[2]
           /\ ResolvedAt(ids) = {1, 2}
           /\ Len(Unwrap(context).sections["items"]) = 2

\* C9: the context has `sections` exactly when the resource has relationships, and
\* `sections` then has exactly the relationship names as keys: a relationship none
\* of whose targets is included is there with an empty list.
C9_SectionsKeys ==
    ContextBuilt =>
        /\ ("sections" \in DOMAIN Unwrap(context)) <=> (CurrentResource.relationships # {})
        /\ CurrentResource.relationships # {} =>
              LET rels == Unwrap(CurrentResource.relationships)
              IN  /\ DOMAIN Unwrap(context).sections = DOMAIN rels
                  /\ \A key \in DOMAIN rels :
                        ResolvedAt(rels[key].ids) = {}
                            => Unwrap(context).sections[key] = <<>>

C9_Witness ==
    /\ ContextBuilt /\ CurrentResource.relationships # {}
    /\ LET rels == Unwrap(CurrentResource.relationships)
       IN  /\ DOMAIN rels = {"items", "fields"}
           /\ rels["items"].ids # <<>> /\ ResolvedAt(rels["items"].ids) = {}
           /\ rels["fields"].ids = <<>>
           /\ Unwrap(context).sections["items"] = <<>>
           /\ Unwrap(context).sections["fields"] = <<>>

\* C10: while the context of a resource is built and its template rendered, and
\* after a failure of either, the file at the path of that resource exists and is
\* empty: File::create has already made or truncated it.
C10_FileCreatedFirst ==
    pc \in {"generate_context", "render"} =>
        /\ path = path_for_resource(CurrentResource)
        /\ Unwrap(path) \in DOMAIN files
        /\ files[Unwrap(path)] = Empty

C10_Witness ==
    /\ pc = "render" /\ status = "panic"
    /\ \E q \in DOMAIN files : files[q] = Old

-----------------------------------------------------------------------------
(* Properties of path_for_resource and of the link (specification PathSpec). *)

\* the resources of the test `path_for_resource`
TestCrate == <<"t", "e", "s", "t", "_", "c", "r", "a", "t", "e">>
TestModule == <<"t", "e", "s", "t", "_", "m", "o", "d", "u", "l", "e">>
TestStruct == <<"T", "e", "s", "t", "S", "t", "r", "u", "c", "t">>
TestModuleRes ==
    [type |-> "module", id |-> TestCrate \o Sep \o TestModule, docs |-> {},
     relationships |-> {}]
TestStructRes ==
    [type |-> "struct", id |-> TestCrate \o Sep \o TestStruct, docs |-> {},
     relationships |-> {}]

\* the path the derivation rule gives for the segments of an id
RulePath(type, segs) ==
    IF type \in {"module", "crate"} THEN Append(segs, IndexHtml)
    ELSE Append(SubSeq(segs, 1, Len(segs) - 1),
                StructTag \o <<".">> \o segs[Len(segs)] \o DotHtml)

\* C4: two resources of supported kinds with different ids never get the same path.
C4_NoCollision ==
    (/\ ppc # "start"
     /\ resA.type \in SupportedKinds /\ resB.type \in SupportedKinds
     /\ resA.id # resB.id)
        => /\ pathA # {} /\ pathB # {}
           /\ pathA # pathB

C4_Witness ==
    /\ ppc = "paths"
    /\ resA.type = "module" /\ resB.type = "struct"
    /\ resA.id # resB.id
    /\ Len(Unwrap(pathA)) = Len(Unwrap(pathB))
    /\ Parent(Unwrap(pathA)) = Parent(Unwrap(pathB))

\* C5: the link from a resource to a related resource leads back to the related
\* resource: followed from the folder of the first one's page, it lands on the path
\* of the second one's page, however deep and wherever the two are.
C5_LinkRoundTrip ==
    (/\ ppc = "linked"
     /\ resA.type \in SupportedKinds /\ resB.type \in SupportedKinds)
        => /\ link # {}
           /\ Resolve(Unwrap(Parent(Unwrap(pathA))), Unwrap(link)) = Unwrap(pathB)

C5_Witness ==
    /\ ppc = "linked"
    /\ resA.type = "struct" /\ resB.type = "module"
    /\ Len(Unwrap(pathA)) = 3 /\ Len(Unwrap(pathB)) = 4
    /\ link # {}
    /\ SubSeq(Unwrap(link), 1, 6) = <<".", ".", "/", ".", ".", "/">>

\* C7: for a module or a crate the path is every segment of the id as a directory
\* and then index.html; for a struct it is every segment but the last as a
\* directory and then struct.<last segment>.html.  The two paths of the test are
\* instances.
C7_PathRule ==
    /\ (ppc # "start" /\ resA.type \in SupportedKinds) =>
          \E segs \in PureSegs :
             /\ Join(segs, Sep) = resA.id
             /\ pathA = Some(RulePath(resA.type, segs))
             /\ resA.type \in {"module", "crate"} => Len(Unwrap(pathA)) = Len(segs) + 1
    /\ path_for_resource(TestModuleRes) = Some(<<TestCrate, TestModule, IndexHtml>>)
    /\ path_for_resource(TestStructRes)
          = Some(<<TestCrate, StructTag \o <<".">> \o TestStruct \o DotHtml>>)

C7_Witness ==
    /\ ppc = "paths"
    /\ resA.type = "struct"
    /\ Len(Split(resA.id, Sep)) = 3
    /\ Len(Unwrap(pathA)) = 3

====
